---- MODULE Spec2Model ----
(***************************************************************************)
(* Model of setupRTMP6.py: the RTMP stream setup assistant.                *)
(*                                                                         *)
(* The program is a sequential script.  Its state is the loaded Config,    *)
(* the position in the main sequence, and the results it collects; the     *)
(* environment it acts on is the OS socket table and process table.        *)
(* Port strings are sequences of characters, parsed as Python's int()      *)
(* parses them.  Optional values are <<>> (None) or <<v>>.                 *)
(***************************************************************************)
EXTENDS Integers, Sequences, FiniteSets, TLC

VARIABLES
    platform,    \* platform.system()
    config,      \* the Config dataclass after load_config
    conns,       \* psutil.net_connections(kind="inet"), in enumeration order
    procs,       \* the OS process table: pid -> [name, kind]
    enumFails,   \* TRUE when socket enumeration raises psutil.Error/OSError
    pc,          \* position of the script
    hpc,         \* the handle_port_conflict invocations made so far, in order
    exitStatus,  \* None while running, <<code>> once the interpreter exited
    devices,     \* config.devices: the records of the device-discovery pass
    selected,    \* selected_device: None or <<record>>
    choice,      \* the select_device_from_list invocation: None or <<record>>
    results,     \* the results dict and conflicting_pid_at_start
    mona,        \* start_mona_server: what it did and what it returned
    steps,       \* the steps of the main sequence executed so far
    envChanges,  \* how often the environment changed under the script
    listing,     \* stdout of 'adb devices -l': a sequence of lines
    ports,       \* the port text each later step of the run has used
    settings     \* the [Options] section of the settings file

vars == <<platform, config, conns, procs, enumFails, pc, hpc, exitStatus,
          devices, selected, choice, results, mona, steps, envChanges, listing,
          ports, settings>>

-----------------------------------------------------------------------------
(* Bounds of the model *)

MaxConns == 2        \* entries in the socket table
MaxDevices == 2      \* records of a device-discovery pass
MaxInputs == 2       \* lines typed at the selection prompt
MaxEnvChanges == 1   \* third-party binds and exits during one run

(* Program constants *)

DefaultPort == 1935
MaxPort == 65535

None == <<>>
Some(x) == <<x>>

Platforms == {"Windows", "Linux"}
Pids == {0, 500, 700}
Kinds == {"absent", "normal", "protected", "stubborn", "hidden"}
Ports == {1935, 8080}
ConnStates == {"LISTEN", "ESTABLISHED"}
Answers == {"y", "n", "interrupt"}
Acks == {"enter", "interrupt"}

PortStrings ==
    { <<"1","9","3","5">>, <<"8","0","8","0">>, <<"0">>, <<"-","1">>,
      <<"6","5","5","3","6">>, <<"a","b","c">>, <<>> }

Ev(e, a) == [e |-> e, a |-> a]

Has(events, e) == \E i \in 1..Len(events) : events[i].e = e
HasEv(events, e, a) == \E i \in 1..Len(events) : events[i] = Ev(e, a)
Count(events, e) == Cardinality({i \in 1..Len(events) : events[i].e = e})

-----------------------------------------------------------------------------
(* int(port_str): an optional sign followed by one or more decimal digits. *)

DigitChars == {"0","1","2","3","4","5","6","7","8","9"}

DigitVal(c) ==
    CASE c = "0" -> 0 [] c = "1" -> 1 [] c = "2" -> 2 [] c = "3" -> 3
      [] c = "4" -> 4 [] c = "5" -> 5 [] c = "6" -> 6 [] c = "7" -> 7
      [] c = "8" -> 8 [] c = "9" -> 9

RECURSIVE DigitsVal(_)
DigitsVal(s) ==
    IF s = <<>> THEN 0
    ELSE 10 * DigitsVal(SubSeq(s, 1, Len(s) - 1)) + DigitVal(s[Len(s)])

ParseInt(s) ==
    LET signed == Len(s) > 0 /\ s[1] \in {"-", "+"}
        body   == IF signed THEN Tail(s) ELSE s
        isNum  == Len(body) > 0 /\ \A i \in 1..Len(body) : body[i] \in DigitChars
    IN IF ~isNum THEN [ok |-> FALSE, val |-> 0]
       ELSE [ok |-> TRUE,
             val |-> IF signed /\ s[1] = "-" THEN 0 - DigitsVal(body)
                     ELSE DigitsVal(body)]

InPortRange(p) == 0 < p /\ p <= MaxPort

-----------------------------------------------------------------------------
(* Process Probe *)

\* c.pid of a socket whose owner the system does not report (None)
NoPid == 0 - 1

\* psutil.Process(pid) followed by p.name(): which processes can be resolved.
\* psutil.Process(None) is the running script itself.
Resolvable(pr, pid) == pid = NoPid \/ pr[pid].kind \notin {"absent", "hidden"}

OwnerName(pr, pid) == IF pid = NoPid THEN "python" ELSE pr[pid].name

RECURSIVE ScanConns(_, _, _, _)
ScanConns(port, cn, pr, i) ==
    IF i > Len(cn) THEN None
    ELSE IF cn[i].lport = port /\ cn[i].status = "LISTEN" /\ Resolvable(pr, cn[i].pid)
         THEN Some([pid |-> cn[i].pid, name |-> OwnerName(pr, cn[i].pid)])
         ELSE ScanConns(port, cn, pr, i + 1)

find_process_using_port(port, cn, pr, ef) ==
    IF ~InPortRange(port) THEN None
    ELSE IF ef THEN None
    ELSE ScanConns(port, cn, pr, 1)

\* the socket table once process pid has exited
RECURSIVE DropConns(_, _)
DropConns(cn, pid) ==
    IF cn = <<>> THEN <<>>
    ELSE IF Head(cn).pid = pid THEN DropConns(Tail(cn), pid)
         ELSE <<Head(cn)>> \o DropConns(Tail(cn), pid)

ProcExit(pr, pid) == [pr EXCEPT ![pid].kind = "absent"]

\* a terminate that refuses nothing
RefusesPid_Never(pid, plat) == FALSE

\* lines 722-724: PID 0 is the System Idle Process on Windows
RefusesPid(pid, plat) == pid = 0 /\ plat = "Windows"

\* a terminate that reports failure when the process outlives the wait
kill_process_by_pid_LingerFails(pid, plat, cn, pr) ==
    IF RefusesPid(pid, plat)
    THEN [ok |-> FALSE, conns |-> cn, procs |-> pr,
          events |-> <<Ev("refuse_pid0", pid)>>]
    ELSE IF pr[pid].kind = "absent"
    THEN [ok |-> TRUE, conns |-> cn, procs |-> pr,
          events |-> <<Ev("gone", pid)>>]
    ELSE IF pid = 0 \/ pr[pid].kind \in {"protected", "hidden"}
    THEN [ok |-> FALSE, conns |-> cn, procs |-> pr,
          events |-> <<Ev("killing", pid), Ev("kill_error", pid)>>]
    ELSE IF pr[pid].kind = "stubborn"
    THEN [ok |-> FALSE, conns |-> cn, procs |-> pr,
          events |-> <<Ev("killing", pid), Ev("signal", pid), Ev("linger", pid)>>]
    ELSE [ok |-> TRUE, conns |-> DropConns(cn, pid), procs |-> ProcExit(pr, pid),
          events |-> <<Ev("killing", pid), Ev("signal", pid), Ev("signal_sent", pid)>>]

\* kill_process_by_pid: the value returned, the events shown and the
\* environment after the call
kill_process_by_pid(pid, plat, cn, pr) ==
    IF RefusesPid(pid, plat)
    THEN [ok |-> FALSE, conns |-> cn, procs |-> pr,
          events |-> <<Ev("refuse_pid0", pid)>>]
    ELSE IF pr[pid].kind = "absent"
    THEN [ok |-> TRUE, conns |-> cn, procs |-> pr,
          events |-> <<Ev("gone", pid)>>]
    ELSE IF pid = 0 \/ pr[pid].kind \in {"protected", "hidden"}
    THEN [ok |-> FALSE, conns |-> cn, procs |-> pr,
          events |-> <<Ev("killing", pid), Ev("kill_error", pid)>>]
    ELSE IF pr[pid].kind = "stubborn"
    THEN [ok |-> TRUE, conns |-> cn, procs |-> pr,
          events |-> <<Ev("killing", pid), Ev("signal", pid), Ev("linger", pid),
                       Ev("signal_sent", pid)>>]
    ELSE [ok |-> TRUE, conns |-> DropConns(cn, pid), procs |-> ProcExit(pr, pid),
          events |-> <<Ev("killing", pid), Ev("signal", pid), Ev("signal_sent", pid)>>]

-----------------------------------------------------------------------------
(* Port Conflict Resolver *)

\* a resolver that checks only that the string is a number
ResolvePort_NoRange(port_str) ==
    LET parsed == ParseInt(port_str)
    IN IF parsed.ok
       THEN [port |-> parsed.val, events |-> <<>>]
       ELSE [port |-> DefaultPort, events |-> <<Ev("invalid_port", DefaultPort)>>]

\* lines 746-751: parse the port string, fall back to 1935 and log it
ResolvePort(port_str) ==
    LET parsed == ParseInt(port_str)
    IN IF parsed.ok /\ InPortRange(parsed.val)
       THEN [port |-> parsed.val, events |-> <<>>]
       ELSE [port |-> DefaultPort, events |-> <<Ev("invalid_port", DefaultPort)>>]

\* a resolver that asks even when the force-kill policy is enabled
KillDecision_AlwaysAsk(force_kill, killAns) ==
    [asked |-> TRUE, kill |-> killAns = "y", raised |-> killAns = "interrupt"]

\* line 759: force-kill policy, or else the answer to the kill prompt
KillDecision(force_kill, killAns) ==
    IF force_kill THEN [asked |-> FALSE, kill |-> TRUE, raised |-> FALSE]
    ELSE [asked |-> TRUE, kill |-> killAns = "y", raised |-> killAns = "interrupt"]

\* a resolver that drops the occupant id when the kill failed
KillReturn_NoPid(killed, pid) ==
    [ok |-> killed, pid |-> None]

\* line 767: return killed, None if killed else pid
KillReturn(killed, pid) ==
    [ok |-> killed, pid |-> IF killed THEN None ELSE Some(pid)]

\* line 770: return False, pid
SkipReturn(pid) == [ok |-> FALSE, pid |-> Some(pid)]

\* line 773: return True, None
ClearReturn == [ok |-> TRUE, pid |-> None]

\* an exit path that does not wait for the acknowledgment
exit_with_error_NoAck(ack) ==
    [term |-> "exit", status |-> Some(1), events |-> <<Ev("error_shown", 0)>>]

\* exit_with_error: present the error, read the acknowledgment, exit 1.
\* An interrupt at input() propagates as KeyboardInterrupt.
exit_with_error(ack) ==
    IF ack = "enter"
    THEN [term |-> "exit", status |-> Some(1),
          events |-> <<Ev("error_shown", 0), Ev("ack", 0)>>]
    ELSE [term |-> "raise", status |-> None,
          events |-> <<Ev("error_shown", 0)>>]

Returned(ret, cn, pr, events) ==
    [term |-> "return", ok |-> ret.ok, pid |-> ret.pid, status |-> None,
     conns |-> cn, procs |-> pr, events |-> events]

Left(x, cn, pr, events) ==
    [term |-> x.term, ok |-> FALSE, pid |-> None, status |-> x.status,
     conns |-> cn, procs |-> pr, events |-> events \o x.events]

\* ans: the operator's answers to the prompts this invocation may issue
\* (kill, skip, ack) and whether the occupant exits by itself between the
\* probe and the kill (vanish).
handle_port_conflict(port_str, force_kill, plat, cn, pr, ef, ans) ==
    LET rp   == ResolvePort(port_str)
        port == rp.port
        ev1  == rp.events \o <<Ev("checking", port), Ev("probe", port)>>
        info == find_process_using_port(port, cn, pr, ef)
    IN IF info = None THEN Returned(ClearReturn, cn, pr, ev1)
       ELSE
        LET pid == info[1].pid
            ev2 == ev1 \o <<Ev("in_use", pid)>>
            kd  == KillDecision(force_kill, ans.kill)
            ev3 == ev2 \o (IF kd.asked THEN <<Ev("ask_kill", pid)>> ELSE <<>>)
        IN IF kd.raised
           THEN Left([term |-> "raise", status |-> None, events |-> <<>>], cn, pr, ev3)
           ELSE IF kd.kill
           THEN LET cn1 == IF ans.vanish THEN DropConns(cn, pid) ELSE cn
                    pr1 == IF ans.vanish THEN ProcExit(pr, pid) ELSE pr
                    k   == kill_process_by_pid(pid, plat, cn1, pr1)
                    ev4 == ev3 \o <<Ev("terminate", pid)>> \o k.events
                    ev5 == ev4 \o (IF k.ok THEN <<Ev("freed", port), Ev("settle", 0)>>
                                   ELSE <<>>)
                IN Returned(KillReturn(k.ok, pid), k.conns, k.procs, ev5)
           ELSE LET ev4 == ev3 \o <<Ev("ask_skip", pid)>>
                IN IF ans.skip = "interrupt"
                   THEN Left([term |-> "raise", status |-> None, events |-> <<>>],
                             cn, pr, ev4)
                   ELSE IF ans.skip = "y"
                   THEN Returned(SkipReturn(pid), cn, pr, ev4 \o <<Ev("skipping", pid)>>)
                   ELSE Left(exit_with_error(ans.ack), cn, pr, ev4)

\* A prompt that is not reached has no answer: the fields of the prompts an
\* answer makes unreachable are held at one value.
AnswerSets ==
    { a \in [kill : Answers, skip : Answers, ack : Acks, vanish : BOOLEAN] :
        /\ a.kill # "n" => a.skip = "n"
        /\ a.skip # "n" \/ a.kill # "n" => a.ack = "enter"
        /\ a.kill # "y" => ~a.vanish }

NoAnswers == [kill |-> "y", skip |-> "n", ack |-> "enter", vanish |-> FALSE]

\* the answers an invocation can receive: none when the port is clear, none
\* to the kill prompt when the force-kill policy skips it
AnswersFor(port_str, force_kill, cn, pr, ef) ==
    LET info == find_process_using_port(ResolvePort(port_str).port, cn, pr, ef)
    IN { a \in AnswerSets : /\ info = None => a = NoAnswers
                            /\ force_kill => a.kill = "y" }

-----------------------------------------------------------------------------
(* Device Selector *)

Statuses == {"device", "offline", "unauthorized"}

DeviceId(i) == CASE i = 1 -> "d1" [] i = 2 -> "d2" [] i = 3 -> "d3" [] OTHER -> "d4"

\* str(i + 1) of lines 652 and 686-687
NumStr(n) ==
    CASE n = 1 -> "1" [] n = 2 -> "2" [] n = 3 -> "3" [] n = 4 -> "4"
      [] n = 5 -> "5" [] OTHER -> "9"

InputTokens == {"1", "2", "3", "4", "x", "interrupt"}

InputSeqs == UNION { [1..n -> InputTokens] : n \in 0..MaxInputs }

DeviceLists ==
    { [i \in 1..n |-> [id |-> DeviceId(i), status |-> st[i]]] :
        n \in 0..MaxDevices, st \in [1..MaxDevices -> Statuses] }

\* a filter that only leaves out the offline records
IsConnected_NotOffline(d) == d.status # "offline"

IsConnected(d) == d.status = "device"

selectable(devs) == SelectSeq(devs, IsConnected)

\* the rows of the 'Detected Devices' table, lines 644-657
DeviceTable(devs) ==
    [i \in 1..Len(devs) |->
        [num |-> IF devs[i].status = "device" THEN NumStr(i) ELSE "-",
         id |-> devs[i].id]]

\* a selector that auto-selects only when the whole list is one record
AutoPick_WholeList(devs, sel, auto_select) == Len(devs) = 1 /\ auto_select

\* line 677: exactly one selectable record and the policy allows it
AutoPick(devs, sel, auto_select) == Len(sel) = 1 /\ auto_select

\* a prompt that takes the first choice when the line typed is not a choice
RECURSIVE PromptAsk_NoRetry(_, _, _)
PromptAsk_NoRetry(choices, inputs, n) ==
    IF inputs = <<>> THEN [term |-> "waiting", value |-> "", prompts |-> n]
    ELSE IF Head(inputs) = "interrupt"
         THEN [term |-> "interrupt", value |-> "", prompts |-> n]
    ELSE IF \E i \in 1..Len(choices) : choices[i] = Head(inputs)
         THEN [term |-> "answer", value |-> Head(inputs), prompts |-> n]
    ELSE [term |-> "answer", value |-> choices[1], prompts |-> n]

\* Prompt.ask(choices=...): asks again until the line typed is one of the
\* choices; an interrupt raises KeyboardInterrupt
RECURSIVE PromptAsk(_, _, _)
PromptAsk(choices, inputs, n) ==
    IF inputs = <<>> THEN [term |-> "waiting", value |-> "", prompts |-> n]
    ELSE IF Head(inputs) = "interrupt"
         THEN [term |-> "interrupt", value |-> "", prompts |-> n]
    ELSE IF \E i \in 1..Len(choices) : choices[i] = Head(inputs)
         THEN [term |-> "answer", value |-> Head(inputs), prompts |-> n]
    ELSE PromptAsk(choices, Tail(inputs), n + 1)

\* lines 660-675: the diagnostics when no record is selectable
SelectionErrorEvents(devs) ==
    <<Ev("no_operational", 0)>>
    \o (IF \E i \in 1..Len(devs) : devs[i].status = "unauthorized"
        THEN <<Ev("check_auth", 0)>> ELSE <<>>)
    \o (IF \E i \in 1..Len(devs) : devs[i].status = "offline"
        THEN <<Ev("reconnect_offline", 0)>> ELSE <<>>)

select_device_from_list(devs, auto_select, inputs) ==
    LET sel == selectable(devs)
        out(term, dev, status, prompts, events, tbl) ==
            [term |-> term, dev |-> dev, status |-> status, prompts |-> prompts,
             events |-> events, table |-> tbl]
    IN IF devs = <<>>
       THEN out("return", None, None, 0, <<Ev("no_devices", 0)>>, <<>>)
       ELSE IF sel = <<>>
       THEN out("return", None, None, 0, SelectionErrorEvents(devs), DeviceTable(devs))
       ELSE IF AutoPick(devs, sel, auto_select)
       THEN out("return", Some(sel[1]), None, 0, <<Ev("auto_select", 0)>>, DeviceTable(devs))
       ELSE LET choices == [i \in 1..Len(sel) |-> NumStr(i)]
                a == PromptAsk(choices, inputs, 1)
            IN IF a.term = "waiting"
               THEN out("waiting", None, None, a.prompts, <<>>, DeviceTable(devs))
               ELSE IF a.term = "interrupt"
               THEN out("exit", None, Some(0), a.prompts, <<Ev("cancelled", 0)>>,
                        DeviceTable(devs))
               ELSE LET k == CHOOSE i \in 1..Len(sel) : choices[i] = a.value
                    IN out("return", Some(sel[k]), None, a.prompts,
                           <<Ev("selected", k)>>, DeviceTable(devs))

\* the record kept of a selection: its result and the lines typed
ChoiceRecord(r, inputs) ==
    [term |-> r.term, dev |-> r.dev, prompts |-> r.prompts, events |-> r.events,
     table |-> r.table, inputs |-> inputs]

-----------------------------------------------------------------------------
(* Server health check *)

\* str.lower() on the process names of the model
LowerName(name) ==
    CASE name = "MonaServer.exe" -> "monaserver.exe"
      [] name = "MonaServer" -> "monaserver"
      [] name = "OldServer" -> "oldserver"
      [] name = "System" -> "system"
      [] OTHER -> name

\* "monaserver" in arg.lower(), for the names of the model
ContainsMona(lname) == lname \in {"monaserver.exe", "monaserver"}

MonaExe(plat) == IF plat = "Windows" THEN "monaserver.exe" ELSE "monaserver"

\* check_monaserver_process: some process whose info can be read has the
\* server's name, executable or command line
check_monaserver_process(pr, plat) ==
    \E p \in Pids :
        /\ pr[p].kind \notin {"absent", "hidden"}
        /\ \/ LowerName(pr[p].name) = MonaExe(plat)
           \/ ContainsMona(LowerName(pr[p].name))

-----------------------------------------------------------------------------
(* The configurations and environments the model starts from *)

ProcName(pid) == IF pid = 0 THEN "System" ELSE IF pid = 500 THEN "OldServer"
                 ELSE "MonaServer.exe"

ConnEntries == [lport : Ports, status : ConnStates, pid : {0, 500}]

ConnTables == UNION { [1..n -> ConnEntries] : n \in 0..MaxConns }

ProcTables ==
    { [p \in Pids |-> [name |-> ProcName(p),
                       kind |-> IF p = 0 THEN k0 ELSE IF p = 500 THEN k5 ELSE "absent"]] :
        k0 \in {"absent", "normal"}, k5 \in Kinds }

\* pid 0 is the System Idle Process on Windows and no process elsewhere
PidZeroFits(plat, pr) == pr[0].kind = (IF plat = "Windows" THEN "normal" ELSE "absent")

\* the options of the file that matter here, as the text configparser reads
OptionValues == {"true", "false"}

SettingsFiles == [AutoStartMonaServer : OptionValues]

\* DEFAULT_CONFIG, lines 77-87
DefaultSettings == [AutoStartMonaServer |-> "true"]

\* a loader that reads the option as it reads the other three
load_options_ReadsAutoStart(cfg, st) ==
    [cfg EXCEPT !.auto_start_monaserver = (st.AutoStartMonaServer = "true")]

\* load_config, lines 430-446: package name, port and three options are
\* read from the file; AutoStartMonaServer is not, so the field keeps the
\* default of the dataclass (line 112)
load_options(cfg, st) ==
    [cfg EXCEPT !.auto_start_monaserver = TRUE]

BaseConfig ==
    [rtmp_port |-> <<"1","9","3","5">>,
     force_kill_port_process |-> TRUE,
     auto_select_single_device |-> TRUE,
     auto_start_monaserver |-> TRUE,
     monaserver_path |-> "MonaServer.exe"]

\* no later step has used the port yet
NoPorts == [forward |-> None, url |-> None, recheck |-> None]

InitResults ==
    [port_conflict |-> "None", conflicting_pid_at_start |-> None,
     port_forwarding |-> "False", app_launch |-> "False",
     url_copied |-> "False", mona_server |-> "None"]

InitMona ==
    [entered |-> FALSE, precheck |-> None, spawned |-> FALSE, postcheck |-> None,
     calls |-> <<>>, ret |-> None]

-----------------------------------------------------------------------------
(* One invocation of handle_port_conflict on an arbitrary environment *)

InitResolver ==
    /\ platform \in Platforms
    /\ config \in { [BaseConfig EXCEPT !.rtmp_port = ps, !.force_kill_port_process = fk] :
                      ps \in PortStrings, fk \in BOOLEAN }
    /\ conns \in ConnTables
    /\ procs \in {pr \in ProcTables : PidZeroFits(platform, pr)}
    /\ enumFails \in BOOLEAN
    /\ pc = "resolver"
    /\ hpc = <<>>
    /\ exitStatus = None
    /\ devices = <<>>
    /\ selected = None
    /\ choice = None
    /\ results = InitResults
    /\ mona = InitMona
    /\ steps = <<>>
    /\ envChanges = 0
    /\ listing = <<>>
    /\ ports = NoPorts
    /\ settings = DefaultSettings

\* the record kept of an invocation: its inputs, the environment it saw and left
CallRecord(r, port_str, cn, pr, ef, ans) ==
    [term |-> r.term, ok |-> r.ok, pid |-> r.pid, events |-> r.events,
     port_str |-> port_str, conns0 |-> cn, procs0 |-> pr, enum0 |-> ef, ans |-> ans]

ResolverCall ==
    /\ pc = "resolver"
    /\ \E ans \in AnswersFor(config.rtmp_port, config.force_kill_port_process,
                             conns, procs, enumFails) :
        LET r == handle_port_conflict(config.rtmp_port, config.force_kill_port_process,
                                      platform, conns, procs, enumFails, ans)
        IN /\ hpc' = Append(hpc, CallRecord(r, config.rtmp_port, conns, procs, enumFails, ans))
           /\ conns' = r.conns
           /\ procs' = r.procs
           /\ pc' = IF r.term = "return" THEN "returned"
                    ELSE IF r.term = "exit" THEN "exited" ELSE "raised"
           /\ exitStatus' = r.status
    /\ UNCHANGED <<platform, settings, listing, ports, config, enumFails, devices, selected, choice, results, mona,
                   steps, envChanges>>

NextResolver == ResolverCall

SpecResolver == InitResolver /\ [][NextResolver]_vars

-----------------------------------------------------------------------------
(* One call of find_process_using_port.  The socket table may hold entries *)
(* whose owner is not reported, as psutil gives them to an unprivileged    *)
(* user on Linux.                                                          *)

ProbePorts == {0 - 1, 0, 1935, 8080, MaxPort, MaxPort + 1}

ProbeConnEntries == [lport : Ports, status : ConnStates, pid : {NoPid, 0, 500}]

ProbeConnTables == UNION { [1..n -> ProbeConnEntries] : n \in 0..MaxConns }

\* Windows reports the owner of every socket
OwnersFit(plat, cn) ==
    plat = "Windows" => \A i \in 1..Len(cn) : cn[i].pid # NoPid

InitProbe ==
    /\ platform \in Platforms
    /\ config = BaseConfig
    /\ conns \in {cn \in ProbeConnTables : OwnersFit(platform, cn)}
    /\ procs \in {pr \in ProcTables : PidZeroFits(platform, pr)}
    /\ enumFails \in BOOLEAN
    /\ pc = "probe"
    /\ hpc = <<>>
    /\ exitStatus = None
    /\ devices = <<>>
    /\ selected = None
    /\ choice = None
    /\ results = InitResults
    /\ mona = InitMona
    /\ steps = <<>>
    /\ envChanges = 0
    /\ listing = <<>>
    /\ ports = NoPorts
    /\ settings = DefaultSettings

ProbeCall ==
    /\ pc = "probe"
    /\ \E port \in ProbePorts :
        hpc' = <<[port |-> port,
                  info |-> find_process_using_port(port, conns, procs, enumFails)]>>
    /\ pc' = "returned"
    /\ UNCHANGED <<platform, settings, listing, ports, config, conns, procs, enumFails, exitStatus, devices,
                   selected, choice, results, mona, steps, envChanges>>

NextProbe == ProbeCall

SpecProbe == InitProbe /\ [][NextProbe]_vars

-----------------------------------------------------------------------------
(* The main sequence *)

TriBool(b) == IF b THEN "True" ELSE "False"

MainPortStrings == { <<"1","9","3","5">>, <<"8","0","8","0">>, <<"0">>, <<"a","b","c">> }

MonaPaths == {"MonaServer.exe", "rtmpd.exe"}

MainDeviceLists == {dl \in DeviceLists : \A i \in 1..Len(dl) : dl[i].status # "unauthorized"}

\* the environment a whole run starts in: nothing on the port, or process
\* 500 listening on the RTMP default port
MainEnvs ==
    { [conns |-> <<[lport |-> 1935, status |-> "LISTEN", pid |-> 500]>>,
       procs |-> [p \in Pids |-> [name |-> ProcName(p),
                                  kind |-> IF p = 500 THEN k ELSE "absent"]]] :
        k \in {"normal", "protected"} }
    \cup { [conns |-> <<>>,
            procs |-> [p \in Pids |-> [name |-> ProcName(p), kind |-> "absent"]]] }

Init ==
    /\ platform = "Windows"
    /\ config \in { [BaseConfig EXCEPT !.rtmp_port = ps, !.force_kill_port_process = fk,
                                      !.auto_select_single_device = as,
                                      !.monaserver_path = mp] :
                      ps \in MainPortStrings, fk \in BOOLEAN, as \in BOOLEAN,
                      mp \in MonaPaths }
    /\ \E env \in MainEnvs : conns = env.conns /\ procs = env.procs
    /\ enumFails = FALSE
    /\ pc = "config"
    /\ hpc = <<>>
    /\ exitStatus = None
    /\ devices \in MainDeviceLists
    /\ selected = None
    /\ choice = None
    /\ results = InitResults
    /\ mona = InitMona
    /\ steps = <<>>
    /\ envChanges = 0
    /\ listing = <<>>
    /\ ports = NoPorts
    /\ settings = DefaultSettings

IsFatalEvent(ev) == ev.e \in {"error_shown", "ack"}

\* what exit_with_error did, as steps of the run: the error presented
\* (line 964) and the acknowledgment read (line 967)
FatalSteps(events) ==
    LET f == SelectSeq(events, IsFatalEvent)
    IN [i \in 1..Len(f) |-> f[i].e]

\* sys.exit or an exception that nothing catches ends the script
Leaves(x) ==
    /\ pc' = IF x.term = "exit" THEN "exited" ELSE "raised"
    /\ exitStatus' = x.status

\* line 995, load_config: a critical path (ADB) that is not set and that
\* the operator does not supply is fatal (lines 379-380, 416-419)
LoadConfig ==
    /\ pc = "config"
    /\ \E paths_set \in BOOLEAN, ack \in Acks :
        IF paths_set
        THEN pc' = "port_check" /\ UNCHANGED exitStatus /\ steps' = Append(steps, "config")
        ELSE /\ Leaves(exit_with_error(ack))
             /\ steps' = Append(steps, "config") \o FatalSteps(exit_with_error(ack).events)
    /\ UNCHANGED <<platform, settings, listing, ports, config, conns, procs, enumFails, hpc, devices, selected, choice,
                   results, mona, envChanges>>

\* lines 998-1006: the initial port check
MainPortCheck ==
    /\ pc = "port_check"
    /\ \E ans \in AnswersFor(config.rtmp_port, config.force_kill_port_process,
                             conns, procs, enumFails) :
        LET r == handle_port_conflict(config.rtmp_port, config.force_kill_port_process,
                                      platform, conns, procs, enumFails, ans)
        IN /\ hpc' = Append(hpc, CallRecord(r, config.rtmp_port, conns, procs, enumFails, ans))
           /\ conns' = r.conns
           /\ procs' = r.procs
           /\ IF r.term = "return"
              THEN /\ results' = [results EXCEPT !.port_conflict = TriBool(r.ok),
                                                 !.conflicting_pid_at_start = r.pid]
                   /\ pc' = "adb"
                   /\ UNCHANGED exitStatus
              ELSE /\ Leaves(r)
                   /\ UNCHANGED results
           /\ steps' = Append(steps, "port_check") \o FatalSteps(r.events)
    /\ UNCHANGED <<platform, settings, listing, ports, config, enumFails, devices, selected, choice, mona, envChanges>>

\* lines 1008-1011: ADB verification
CheckAdb ==
    /\ pc = "adb"
    /\ \E adb_ok \in BOOLEAN, ack \in Acks :
        IF adb_ok
        THEN pc' = "devices" /\ UNCHANGED exitStatus /\ steps' = Append(steps, "adb")
        ELSE /\ Leaves(exit_with_error(ack))
             /\ steps' = Append(steps, "adb") \o FatalSteps(exit_with_error(ack).events)
    /\ UNCHANGED <<platform, settings, listing, ports, config, conns, procs, enumFails, hpc, devices, selected, choice,
                   results, mona, envChanges>>

\* the lines typed at the device prompt during a whole run: the lines the
\* prompt rejects are all "x" (the selection by itself is run with every
\* line), the last line is any line
MainInputSeqs ==
    {s \in InputSeqs : \A i \in 1..(Len(s) - 1) : s[i] = "x"}

\* a main sequence that treats a cancelled selection as no selection
SelectDevice_CancelIsNone ==
    /\ pc = "devices"
    /\ \E inputs \in MainInputSeqs, ack \in Acks :
        LET r == select_device_from_list(devices, config.auto_select_single_device, inputs)
        IN /\ r.term # "waiting"
           /\ Len(inputs) = r.prompts
           /\ choice' = Some(ChoiceRecord(r, inputs))
           /\ IF r.dev = None
              THEN /\ Leaves(exit_with_error(ack)) /\ UNCHANGED selected
                   /\ steps' = Append(steps, "select")
                                   \o FatalSteps(exit_with_error(ack).events)
              ELSE /\ selected' = r.dev
                   /\ pc' = "forward"
                   /\ UNCHANGED exitStatus
                   /\ steps' = Append(steps, "select")
    /\ UNCHANGED <<platform, settings, listing, ports, config, conns, procs, enumFails, hpc, devices,
                   results, mona, envChanges>>

\* lines 1013-1017: device selection
SelectDevice ==
    /\ pc = "devices"
    /\ \E inputs \in MainInputSeqs, ack \in Acks :
        LET r == select_device_from_list(devices, config.auto_select_single_device, inputs)
        IN /\ r.term # "waiting"
           /\ Len(inputs) = r.prompts   \* the lines typed are the lines read
           /\ choice' = Some(ChoiceRecord(r, inputs))
           /\ IF r.term = "exit"
              THEN Leaves(r) /\ UNCHANGED selected /\ steps' = Append(steps, "select")
              ELSE IF r.dev = None
              THEN /\ Leaves(exit_with_error(ack)) /\ UNCHANGED selected
                   /\ steps' = Append(steps, "select")
                                   \o FatalSteps(exit_with_error(ack).events)
              ELSE /\ selected' = r.dev
                   /\ pc' = "forward"
                   /\ UNCHANGED exitStatus
                   /\ steps' = Append(steps, "select")
    /\ UNCHANGED <<platform, settings, listing, ports, config, conns, procs, enumFails, hpc, devices,
                   results, mona, envChanges>>

\* line 780: adb reverse tcp:{port} tcp:{port} with port = config.rtmp_port
ForwardPort(cfg) == cfg.rtmp_port

\* line 841: rtmp://127.0.0.1:{c_config.rtmp_port}/live
UrlPort(cfg) == cfg.rtmp_port

\* lines 930 and 937: find_process_using_port(int(config.rtmp_port))
RecheckPort(cfg) == cfg.rtmp_port

\* lines 1020-1023: reverse port forwarding, and the prompt when it failed
SetupPortForwarding ==
    /\ pc = "forward"
    /\ \E fwd_ok \in BOOLEAN, ans \in Answers, ack \in Acks :
        /\ results' = [results EXCEPT !.port_forwarding = TriBool(fwd_ok)]
        /\ ports' = [ports EXCEPT !.forward = Some(ForwardPort(config))]
        /\ IF fwd_ok \/ ans = "y"
           THEN pc' = "launch" /\ UNCHANGED exitStatus /\ steps' = Append(steps, "forward")
           ELSE IF ans = "interrupt"
           THEN /\ Leaves([term |-> "raise", status |-> None])
                /\ steps' = Append(steps, "forward")
           ELSE /\ Leaves(exit_with_error(ack))
                /\ steps' = Append(steps, "forward")
                                \o FatalSteps(exit_with_error(ack).events)
    /\ UNCHANGED <<platform, settings, listing, config, conns, procs, enumFails, hpc, devices, selected,
                   choice, mona, envChanges>>

\* line 1024: app launch
LaunchApp ==
    /\ pc = "launch"
    /\ \E launch_ok \in BOOLEAN :
        results' = [results EXCEPT !.app_launch = TriBool(launch_ok)]
    /\ pc' = "clipboard"
    /\ steps' = Append(steps, "launch")
    /\ UNCHANGED <<platform, settings, listing, ports, config, conns, procs, enumFails, hpc, exitStatus, devices,
                   selected, choice, mona, envChanges>>

\* lines 1025-1028: the RTMP URL; Config.auto_start_monaserver then decides
\* whether start_mona_server runs
CopyToClipboard ==
    /\ pc = "clipboard"
    /\ config.auto_start_monaserver
    /\ results' = [results EXCEPT !.url_copied = "True"]
    /\ ports' = [ports EXCEPT !.url = Some(UrlPort(config))]
    /\ pc' = "mona"
    /\ steps' = Append(steps, "clipboard")
    /\ UNCHANGED <<platform, settings, listing, config, conns, procs, enumFails, hpc, exitStatus, devices,
                   selected, choice, mona, envChanges>>

\* start_mona_server returns ret to line 1029
MonaReturns(m, ret) ==
    /\ mona' = [m EXCEPT !.ret = Some(ret)]
    /\ results' = [results EXCEPT !.mona_server = ret]
    /\ pc' = "summary"
    /\ UNCHANGED exitStatus

\* a start that does not look for a running server first
MonaPrecheck_NoHealthCheck ==
    /\ pc = "mona"
    /\ \E is_file \in BOOLEAN :
        LET running == check_monaserver_process(procs, platform)
            m == [mona EXCEPT !.entered = TRUE, !.precheck = Some(running)]
        IN IF ~is_file THEN MonaReturns(m, "False")
           ELSE /\ mona' = m
                /\ pc' = "mona_resolve"
                /\ UNCHANGED <<results, exitStatus>>
    /\ steps' = Append(steps, "mona")
    /\ UNCHANGED <<platform, settings, listing, ports, config, conns, procs, enumFails, hpc, devices, selected,
                   choice, envChanges>>

\* lines 884-891: server already running, or no executable to start
MonaPrecheck ==
    /\ pc = "mona"
    /\ \E is_file \in BOOLEAN :
        LET running == check_monaserver_process(procs, platform)
            m == [mona EXCEPT !.entered = TRUE, !.precheck = Some(running)]
        IN IF running THEN MonaReturns(m, "True")
           ELSE IF ~is_file THEN MonaReturns(m, "False")
           ELSE /\ mona' = m
                /\ pc' = "mona_resolve"
                /\ UNCHANGED <<results, exitStatus>>
    /\ steps' = Append(steps, "mona")
    /\ UNCHANGED <<platform, settings, listing, ports, config, conns, procs, enumFails, hpc, devices, selected, choice,
                   envChanges>>

\* a start that trusts the outcome of the initial port check
MonaResolve_Cached ==
    /\ pc = "mona_resolve"
    /\ LET r == hpc[1]
           m == [mona EXCEPT !.calls = Append(@, Len(hpc) + 1)]
       IN /\ hpc' = Append(hpc, r)
          /\ IF ~r.ok THEN MonaReturns(m, "False")
             ELSE /\ mona' = m
                  /\ pc' = "mona_spawn"
                  /\ UNCHANGED <<results, exitStatus>>
    /\ UNCHANGED <<platform, settings, listing, ports, config, conns, procs, enumFails, devices, selected, choice,
                   steps, envChanges>>

\* a start that spawns whatever the resolver reported
MonaResolve_SpawnAnyway ==
    /\ pc = "mona_resolve"
    /\ \E ans \in AnswersFor(config.rtmp_port, config.force_kill_port_process,
                             conns, procs, enumFails) :
        LET r == handle_port_conflict(config.rtmp_port, config.force_kill_port_process,
                                      platform, conns, procs, enumFails, ans)
            m == [mona EXCEPT !.calls = Append(@, Len(hpc) + 1)]
        IN /\ hpc' = Append(hpc, CallRecord(r, config.rtmp_port, conns, procs, enumFails, ans))
           /\ conns' = r.conns
           /\ procs' = r.procs
           /\ IF r.term # "return"
              THEN Leaves(r) /\ mona' = m /\ UNCHANGED results
              ELSE /\ mona' = m
                   /\ pc' = "mona_spawn"
                   /\ UNCHANGED <<results, exitStatus>>
           /\ steps' = steps \o FatalSteps(r.events)
    /\ UNCHANGED <<platform, settings, listing, ports, config, enumFails, devices, selected, choice, envChanges>>

\* lines 896-901: the resolver must report clear or resolved before the spawn
MonaResolve ==
    /\ pc = "mona_resolve"
    /\ \E ans \in AnswersFor(config.rtmp_port, config.force_kill_port_process,
                             conns, procs, enumFails) :
        LET r == handle_port_conflict(config.rtmp_port, config.force_kill_port_process,
                                      platform, conns, procs, enumFails, ans)
            m == [mona EXCEPT !.calls = Append(@, Len(hpc) + 1)]
        IN /\ hpc' = Append(hpc, CallRecord(r, config.rtmp_port, conns, procs, enumFails, ans))
           /\ conns' = r.conns
           /\ procs' = r.procs
           /\ IF r.term # "return"
              THEN Leaves(r) /\ mona' = m /\ UNCHANGED results
              ELSE IF ~r.ok THEN MonaReturns(m, "False")
              ELSE /\ mona' = m
                   /\ pc' = "mona_spawn"
                   /\ UNCHANGED <<results, exitStatus>>
           /\ steps' = steps \o FatalSteps(r.events)
    /\ UNCHANGED <<platform, settings, listing, ports, config, enumFails, devices, selected, choice, envChanges>>

PortListened(cn, port) ==
    \E i \in 1..Len(cn) : cn[i].lport = port /\ cn[i].status = "LISTEN"

\* lines 911-921: Popen and the 1.5 s settle delay.  Popen may raise; the
\* spawned process (pid 700) may bind a free port, stay unbound, or be gone
\* again when the delay is over.
MonaSpawn ==
    /\ pc = "mona_spawn"
    /\ \/ /\ MonaReturns(mona, "False")
          /\ UNCHANGED <<conns, procs>>
       \/ /\ mona' = [mona EXCEPT !.spawned = TRUE]
          /\ pc' = "mona_verify"
          /\ UNCHANGED <<results, exitStatus>>
          /\ \/ UNCHANGED <<conns, procs>>
             \/ /\ procs' = [procs EXCEPT ![700] =
                                [name |-> config.monaserver_path, kind |-> "normal"]]
                /\ \/ UNCHANGED conns
                   \/ \E p \in Ports :
                        /\ ~PortListened(conns, p)
                        /\ conns' = Append(conns, [lport |-> p, status |-> "LISTEN",
                                                   pid |-> 700])
    /\ UNCHANGED <<platform, settings, listing, ports, config, enumFails, hpc, devices, selected, choice, steps, envChanges>>

\* lines 929-945: which warning is shown; int(config.rtmp_port) raises
\* ValueError for a string that is no number
RecheckMessage(port_str, still_pid, cn, pr, ef, plat) ==
    LET parsed == ParseInt(port_str)
    IN IF ~parsed.ok THEN "ValueError"
       ELSE IF still_pid = None /\ find_process_using_port(parsed.val, cn, pr, ef) = None
       THEN "port_not_taken"
       ELSE IF find_process_using_port(parsed.val, cn, pr, ef) # None
               /\ ~check_monaserver_process(pr, plat)
       THEN "taken_by_other"
       ELSE "status_check_failed"

\* lines 924-950: the health check after the settle delay, and the resolver
\* re-run when the server is not detected
MonaVerify ==
    /\ pc = "mona_verify"
    /\ LET running == check_monaserver_process(procs, platform)
           m == [mona EXCEPT !.postcheck = Some(running)]
       IN IF running
          THEN MonaReturns(m, "True") /\ UNCHANGED <<hpc, conns, procs, steps, ports>>
          ELSE \E ans \in AnswersFor(config.rtmp_port, config.force_kill_port_process,
                             conns, procs, enumFails) :
            LET r == handle_port_conflict(config.rtmp_port, config.force_kill_port_process,
                                          platform, conns, procs, enumFails, ans)
                m2 == [m EXCEPT !.calls = Append(@, Len(hpc) + 1)]
            IN /\ hpc' = Append(hpc, CallRecord(r, config.rtmp_port, conns, procs,
                                                enumFails, ans))
               /\ conns' = r.conns
               /\ procs' = r.procs
               /\ ports' = IF r.term # "return" THEN ports
                            ELSE [ports EXCEPT !.recheck = Some(RecheckPort(config))]
               /\ IF r.term # "return"
                  THEN Leaves(r) /\ mona' = m2 /\ UNCHANGED results
                  ELSE IF RecheckMessage(RecheckPort(config), r.pid, r.conns, r.procs,
                                         enumFails, platform) = "ValueError"
                  THEN MonaReturns(m2, "False")
                  ELSE MonaReturns(m2, "None")
               /\ steps' = steps \o FatalSteps(r.events)
    /\ UNCHANGED <<platform, settings, listing, config, enumFails, devices, selected, choice, envChanges>>

\* lines 1042-1177: the summary
Summary ==
    /\ pc = "summary"
    /\ pc' = "final_ack"
    /\ steps' = Append(steps, "summary")
    /\ UNCHANGED <<platform, settings, listing, ports, config, conns, procs, enumFails, hpc, exitStatus, devices,
                   selected, choice, results, mona, envChanges>>

\* a closing that exits without the pause
FinalAck_NoPause ==
    /\ pc = "final_ack"
    /\ pc' = "exited"
    /\ exitStatus' = Some(0)
    /\ UNCHANGED <<platform, settings, listing, ports, config, conns, procs, enumFails, hpc, devices,
                   selected, choice, results, mona, steps, envChanges>>

\* lines 1179-1187: the closing pause; an interrupt there is caught
FinalAck ==
    /\ pc = "final_ack"
    /\ \E ack \in Acks :
        /\ pc' = "exited"
        /\ exitStatus' = Some(0)
        /\ steps' = Append(steps, IF ack = "enter" THEN "ack" ELSE "ack_interrupted")
    /\ UNCHANGED <<platform, settings, listing, ports, config, conns, procs, enumFails, hpc, devices,
                   selected, choice, results, mona, envChanges>>

\* The steps between the initial port check and start_mona_server read
\* neither the socket table nor the process table, so a change of the
\* environment is placed right before a step that does.
Running == pc \in {"mona", "mona_resolve", "mona_verify"}

\* another program starts listening on a port nobody listens on
ThirdPartyBinds ==
    /\ Running
    /\ envChanges < MaxEnvChanges
    /\ \E p \in Ports :
        /\ ~PortListened(conns, p)
        /\ conns' = Append(conns, [lport |-> p, status |-> "LISTEN", pid |-> 500])
    /\ procs' = IF procs[500].kind = "absent"
                THEN [procs EXCEPT ![500] = [name |-> "OldServer", kind |-> "normal"]]
                ELSE procs
    /\ envChanges' = envChanges + 1
    /\ UNCHANGED <<platform, settings, listing, ports, config, enumFails, pc, hpc, exitStatus, devices, selected, choice,
                   results, mona, steps>>

\* a process exits by itself and its sockets close
ProcessExits ==
    /\ Running
    /\ envChanges < MaxEnvChanges
    /\ \E p \in {500, 700} :
        /\ procs[p].kind # "absent"
        /\ procs' = ProcExit(procs, p)
        /\ conns' = DropConns(conns, p)
    /\ envChanges' = envChanges + 1
    /\ UNCHANGED <<platform, settings, listing, ports, config, enumFails, pc, hpc, exitStatus, devices, selected, choice,
                   results, mona, steps>>

Next ==
    \/ LoadConfig
    \/ MainPortCheck
    \/ CheckAdb
    \/ SelectDevice
    \/ SetupPortForwarding
    \/ LaunchApp
    \/ CopyToClipboard
    \/ MonaPrecheck
    \/ MonaResolve
    \/ MonaSpawn
    \/ MonaVerify
    \/ Summary
    \/ FinalAck

Spec == Init /\ [][Next]_vars

-----------------------------------------------------------------------------
(* The port check and the server start of the main sequence, on every      *)
(* environment of the model.  The steps in between (ADB verification,      *)
(* device selection, forwarding, app launch, clipboard) pass.              *)

ServerEnvs ==
    { [conns |-> cn,
       procs |-> [p \in Pids |-> [name |-> IF p = 500 THEN nm ELSE ProcName(p),
                                  kind |-> IF p = 500 THEN k ELSE "absent"]]] :
        cn \in {<<>>, <<[lport |-> 1935, status |-> "LISTEN", pid |-> 500]>>},
        nm \in {"OldServer", "MonaServer.exe"},
        k \in {"normal", "stubborn", "protected"} }
    \cup { [conns |-> <<>>,
            procs |-> [p \in Pids |-> [name |-> ProcName(p), kind |-> "absent"]]] }

InitServer ==
    /\ platform = "Windows"
    /\ settings \in SettingsFiles
    /\ config \in { load_options([BaseConfig EXCEPT !.rtmp_port = ps,
                                                     !.force_kill_port_process = fk,
                                                     !.monaserver_path = mp], settings) :
                      ps \in MainPortStrings, fk \in BOOLEAN, mp \in MonaPaths }
    /\ \E env \in ServerEnvs : conns = env.conns /\ procs = env.procs
    /\ enumFails = FALSE
    /\ pc = "port_check"
    /\ hpc = <<>>
    /\ exitStatus = None
    /\ devices = <<[id |-> DeviceId(1), status |-> "device"]>>
    /\ selected = None
    /\ choice = None
    /\ results = InitResults
    /\ mona = InitMona
    /\ steps = <<>>
    /\ envChanges = 0
    /\ listing = <<>>
    /\ ports = NoPorts

StepsBetween ==
    /\ pc = "adb"
    /\ config.auto_start_monaserver   \* line 1028
    /\ pc' = "mona"
    /\ selected' = Some(devices[1])
    /\ UNCHANGED choice
    /\ results' = [results EXCEPT !.port_forwarding = "True", !.app_launch = "True",
                                  !.url_copied = "True"]
    /\ steps' = steps \o <<"adb", "select", "forward", "launch", "clipboard">>
    /\ ports' = [ports EXCEPT !.forward = Some(ForwardPort(config)),
                              !.url = Some(UrlPort(config))]
    /\ UNCHANGED <<platform, settings, listing, config, conns, procs, enumFails, hpc, exitStatus, devices,
                   mona, envChanges>>

NextServer ==
    \/ MainPortCheck
    \/ StepsBetween
    \/ MonaPrecheck
    \/ MonaResolve
    \/ MonaSpawn
    \/ MonaVerify
    \/ ThirdPartyBinds
    \/ ProcessExits

SpecServer == InitServer /\ [][NextServer]_vars

-----------------------------------------------------------------------------
(* One invocation of select_device_from_list on an arbitrary device list *)

InitSelect ==
    /\ platform = "Windows"
    /\ config \in { [BaseConfig EXCEPT !.auto_select_single_device = as] : as \in BOOLEAN }
    /\ conns = <<>>
    /\ procs = [p \in Pids |-> [name |-> ProcName(p), kind |-> "absent"]]
    /\ enumFails = FALSE
    /\ pc = "select"
    /\ hpc = <<>>
    /\ exitStatus = None
    /\ devices \in DeviceLists
    /\ selected = None
    /\ choice = None
    /\ results = InitResults
    /\ mona = InitMona
    /\ steps = <<>>
    /\ envChanges = 0
    /\ listing = <<>>
    /\ ports = NoPorts
    /\ settings = DefaultSettings

\* the lines typed are all of inputs; when none of them ends the prompt the
\* prompt is still open ("prompting")
SelectCall ==
    /\ pc = "select"
    /\ \E inputs \in InputSeqs :
        LET r == select_device_from_list(devices, config.auto_select_single_device, inputs)
        IN /\ choice' = Some(ChoiceRecord(r, inputs))
           /\ selected' = r.dev
           /\ exitStatus' = r.status
           /\ pc' = IF r.term = "return" THEN "returned"
                    ELSE IF r.term = "exit" THEN "exited" ELSE "prompting"
    /\ UNCHANGED <<platform, settings, listing, ports, config, conns, procs, enumFails, hpc, devices, results,
                   mona, steps, envChanges>>

NextSelect == SelectCall

SpecSelect == InitSelect /\ [][NextSelect]_vars

-----------------------------------------------------------------------------
(* Device discovery followed by the selection.  A line of the listing is   *)
(* the sequence of its whitespace-separated words.                         *)

MaxLines == 3

HeaderLine == <<"List", "of", "devices", "attached">>

ListingLines ==
    { HeaderLine,
      <<"ABC123", "device">>,
      <<"192.168.1.5:5555", "offline">>,
      <<"emulator-5554", "device", "product:sdk">>,
      <<"*", "daemon", "started">> }

Listings == UNION { [1..n -> ListingLines] : n \in 0..MaxLines }

\* [\w.\-:]+ on the words of the model: every word but the asterisk
IdLike(word) == word # "*"

\* line 551: ^([\w.\-:]+)\s+(device|offline|unauthorized)(?:\s+(.*))?$
LineMatch(line) ==
    Len(line) >= 2 /\ IdLike(line[1]) /\ line[2] \in Statuses

\* lines 592-599: the connection kind read off the identifier
ConnectionKind(did) ==
    CASE did = "192.168.1.5:5555" -> "Wi-Fi"   \* dotted digits before the colon
      [] did = "emulator-5554" -> "Emulator"
      [] OTHER -> "USB"

\* str.capitalize() on a status
Capitalize(stat) ==
    CASE stat = "offline" -> "Offline"
      [] stat = "unauthorized" -> "Unauthorized"
      [] OTHER -> "Device"

ParenName(stat) ==
    CASE Capitalize(stat) = "Offline" -> "(Offline)"
      [] Capitalize(stat) = "Unauthorized" -> "(Unauthorized)"
      [] OTHER -> "(Device)"

\* what get_device_model may answer when fetching is enabled
ModelNames == {"Pixel 7", "Unknown (Timeout)"}

\* parse_device_line; model is the answer of get_device_model
parse_device_line(fetch, line, model) ==
    [id |-> line[1], status |-> line[2], details |-> SubSeq(line, 3, Len(line)),
     connection |-> ConnectionKind(line[1]),
     name |-> IF line[2] = "device"
              THEN (IF fetch THEN model ELSE "Unknown")
              ELSE ParenName(line[2])]

RECURSIVE ParseLines(_, _, _)
ParseLines(fetch, lines, model) ==
    IF lines = <<>> THEN <<>>
    ELSE (IF LineMatch(Head(lines))
          THEN <<parse_device_line(fetch, Head(lines), model)>> ELSE <<>>)
         \o ParseLines(fetch, Tail(lines), model)

\* a discovery that reads every line of the listing
find_connected_devices_FromFirstLine(fetch, run_ok, lines, model) ==
    IF ~run_ok THEN <<>>
    ELSE ParseLines(fetch, lines, model)

\* find_connected_devices: nothing when the command failed or printed at
\* most one line; the first line is never parsed
find_connected_devices(fetch, run_ok, lines, model) ==
    IF ~run_ok THEN <<>>
    ELSE IF Len(lines) <= 1 THEN <<>>
    ELSE ParseLines(fetch, Tail(lines), model)

DiscoverConfigs ==
    { [rtmp_port |-> BaseConfig.rtmp_port,
       force_kill_port_process |-> BaseConfig.force_kill_port_process,
       auto_select_single_device |-> as,
       auto_start_monaserver |-> BaseConfig.auto_start_monaserver,
       monaserver_path |-> BaseConfig.monaserver_path,
       fetch_device_models |-> fetch] : as \in BOOLEAN, fetch \in BOOLEAN }

InitDiscover ==
    /\ platform = "Windows"
    /\ config \in DiscoverConfigs
    /\ conns = <<>>
    /\ procs = [p \in Pids |-> [name |-> ProcName(p), kind |-> "absent"]]
    /\ enumFails = FALSE
    /\ pc = "discover"
    /\ hpc = <<>>
    /\ exitStatus = None
    /\ devices = <<>>
    /\ selected = None
    /\ choice = None
    /\ results = InitResults
    /\ mona = InitMona
    /\ steps = <<>>
    /\ envChanges = 0
    /\ listing \in Listings
    /\ ports = NoPorts
    /\ settings = DefaultSettings

\* line 1014: config.devices = find_connected_devices(config)
Discover ==
    /\ pc = "discover"
    /\ \E run_ok \in BOOLEAN, model \in ModelNames :
        /\ config.fetch_device_models \/ model = "Pixel 7"
        /\ devices' = find_connected_devices(config.fetch_device_models, run_ok,
                                             listing, model)
        /\ steps' = Append(steps, IF run_ok THEN "devices_listed" ELSE "adb_error")
    /\ pc' = "select"
    /\ UNCHANGED <<platform, settings, listing, ports, config, conns, procs, enumFails, hpc, exitStatus,
                   selected, choice, results, mona, envChanges>>

\* line 1015: selected_device = select_device_from_list(config); the lines
\* typed are the lines the prompt read
Choose ==
    /\ pc = "select"
    /\ \E inputs \in InputSeqs :
        LET r == select_device_from_list(devices, config.auto_select_single_device, inputs)
        IN /\ r.term # "waiting"
           /\ Len(inputs) = r.prompts
           /\ choice' = Some(ChoiceRecord(r, inputs))
           /\ selected' = r.dev
           /\ exitStatus' = r.status
           /\ pc' = IF r.term = "return" THEN "returned" ELSE "exited"
    /\ steps' = Append(steps, "select")
    /\ UNCHANGED <<platform, settings, listing, ports, config, conns, procs, enumFails, hpc, devices, results,
                   mona, envChanges>>

NextDiscover == Discover \/ Choose

SpecDiscover == InitDiscover /\ [][NextDiscover]_vars

-----------------------------------------------------------------------------
(* Properties of one resolver invocation (SpecResolver) *)

LastCall == hpc[Len(hpc)]

\* what the Process Probe reported to an invocation
ProbedPort(c) == ResolvePort(c.port_str).port
ProbeInfo(c) == find_process_using_port(ProbedPort(c), c.conns0, c.procs0, c.enum0)
Occupied(c) == ProbeInfo(c) # None
OccupantPid(c) == ProbeInfo(c)[1].pid

TerminateCalled(c) == Has(c.events, "terminate")
TerminateOk(c) == Has(c.events, "signal_sent") \/ Has(c.events, "gone")
TerminateFailed(c) == TerminateCalled(c) /\ ~TerminateOk(c)

IsResolved(c) == c.term = "return" /\ c.ok /\ c.pid = None /\ TerminateCalled(c)
IsSkipped(c) == c.term = "return" /\ ~c.ok /\ c.pid # None
IsFatal(c) == c.term = "exit"

InvalidPortString(ps) == ~(ParseInt(ps).ok /\ InPortRange(ParseInt(ps).val))

\* C1: an invocation never returns 'resolved' (True, no occupant id) while
\* the Process Probe would still report an occupant on the probed port.
C1_NoResolvedWhileOccupied ==
    (hpc # <<>> /\ IsResolved(LastCall))
        => find_process_using_port(ProbedPort(LastCall), conns, procs, enumFails) = None

\* C2 as stated: a failed terminate ends in fatal, or in skipped only after
\* the operator was asked whether to proceed.
C2_FailedKillFatalUnlessAgreed ==
    (hpc # <<>> /\ TerminateFailed(LastCall))
        => \/ IsFatal(LastCall)
           \/ IsSkipped(LastCall) /\ Has(LastCall.events, "ask_skip")

\* C2 amended: a failed terminate makes the invocation return the unresolved
\* outcome (False, occupant id) at once: no skip prompt is issued, no error
\* is presented and the run is not halted.
C2_FailedKillReturnsUnresolved ==
    (hpc # <<>> /\ TerminateFailed(LastCall))
        => /\ LastCall.term = "return"
           /\ ~LastCall.ok
           /\ LastCall.pid = Some(OccupantPid(LastCall))
           /\ ~Has(LastCall.events, "ask_skip")
           /\ ~Has(LastCall.events, "error_shown")
           /\ exitStatus = None

C2_Witness ==
    /\ hpc # <<>> /\ TerminateFailed(LastCall)
    /\ LastCall.pid = Some(500)
    /\ pc = "returned"

\* C3: when the port is occupied and force-kill is enabled or the operator
\* confirms the kill prompt, terminate is attempted once, on the occupant the
\* probe reported; if it succeeds the outcome is (True, None) and the settle
\* delay is the last thing before the return.
C3_KillThenResolved ==
    (hpc # <<>> /\ Occupied(LastCall)
        /\ (config.force_kill_port_process \/ LastCall.ans.kill = "y"))
        => /\ HasEv(LastCall.events, "terminate", OccupantPid(LastCall))
           /\ Count(LastCall.events, "terminate") = 1
           /\ Has(LastCall.events, "ask_kill") = ~config.force_kill_port_process
           /\ TerminateOk(LastCall)
                => /\ LastCall.term = "return"
                   /\ LastCall.ok
                   /\ LastCall.pid = None
                   /\ LastCall.events[Len(LastCall.events)] = Ev("settle", 0)

C3_Witness ==
    /\ hpc # <<>> /\ Occupied(LastCall)
    /\ config.force_kill_port_process
    /\ OccupantPid(LastCall) = 500
    /\ Has(LastCall.events, "signal_sent")
    /\ IsResolved(LastCall)
    /\ find_process_using_port(ProbedPort(LastCall), conns, procs, enumFails) = None

\* C4: with force-kill disabled and the kill prompt declined, agreeing to
\* proceed gives skipped with the occupant's id and no terminate call;
\* declining gives the fatal path: the error is presented, the
\* acknowledgment is read and only then the run exits with status 1.
C4_DeclinedKill ==
    (hpc # <<>> /\ Occupied(LastCall)
        /\ ~config.force_kill_port_process /\ LastCall.ans.kill = "n")
        => /\ ~TerminateCalled(LastCall)
           /\ conns = LastCall.conns0 /\ procs = LastCall.procs0
           /\ LastCall.ans.skip = "y"
                => /\ IsSkipped(LastCall)
                   /\ LastCall.pid = Some(OccupantPid(LastCall))
                   /\ exitStatus = None
           /\ LastCall.ans.skip = "n"
                => /\ LastCall.term # "return"
                   /\ Has(LastCall.events, "error_shown")
                   /\ exitStatus # None => exitStatus = Some(1) /\ Has(LastCall.events, "ack")
                   /\ LastCall.ans.ack = "enter"
                        => /\ exitStatus = Some(1)
                           /\ LastCall.events[Len(LastCall.events)] = Ev("ack", 0)
                           /\ LastCall.events[Len(LastCall.events) - 1] = Ev("error_shown", 0)

C4_Witness ==
    /\ hpc # <<>> /\ Occupied(LastCall)
    /\ ~config.force_kill_port_process
    /\ LastCall.ans.kill = "n" /\ LastCall.ans.skip = "n" /\ LastCall.ans.ack = "enter"
    /\ exitStatus = Some(1)

\* C5: a port string that does not parse to an integer in (0, 65535] is
\* replaced by 1935 and logged; the invocation then goes on exactly as it
\* does for the string "1935": it probes port 1935 and ends the same way.
C5_InvalidPortUsesDefault ==
    (hpc # <<>> /\ InvalidPortString(LastCall.port_str))
        => LET c == LastCall
               d == handle_port_conflict(<<"1","9","3","5">>, config.force_kill_port_process,
                                         platform, c.conns0, c.procs0, c.enum0, c.ans)
           IN /\ c.events[1] = Ev("invalid_port", 1935)
              /\ c.events[3] = Ev("probe", 1935)
              /\ Count(c.events, "probe") = 1
              /\ Tail(c.events) = d.events
              /\ c.term = d.term /\ c.ok = d.ok /\ c.pid = d.pid
              /\ conns = d.conns /\ procs = d.procs
              /\ (c.term = "raise" => Has(c.events, "ask_kill"))

C5_Witness ==
    /\ hpc # <<>> /\ LastCall.port_str = <<"a","b","c">>
    /\ HasEv(LastCall.events, "probe", 1935)
    /\ HasEv(LastCall.events, "in_use", 500)
    /\ pc = "returned"

-----------------------------------------------------------------------------
(* Properties of the port check and the server start (SpecServer) *)

\* C6: every invocation of the resolver, the ones inside start_mona_server
\* included, queries the probe once and its outcome is that of the socket
\* and process tables of the moment it is invoked: clear when the probe
\* finds nothing then, and about the occupant found then otherwise.
C6_OutcomeFromFreshProbe ==
    [][Len(hpc') # Len(hpc) =>
        LET c == hpc'[Len(hpc')]
            info == find_process_using_port(ResolvePort(config.rtmp_port).port,
                                            conns, procs, enumFails)
        IN /\ Len(hpc') = Len(hpc) + 1
           /\ Count(c.events, "probe") = 1
           /\ info = None
                => /\ c.term = "return" /\ c.ok /\ c.pid = None
                   /\ ~Has(c.events, "in_use") /\ ~Has(c.events, "terminate")
           /\ info # None
                => /\ HasEv(c.events, "in_use", info[1].pid)
                   /\ Count(c.events, "in_use") = 1
                   /\ Has(c.events, "terminate") => HasEv(c.events, "terminate", info[1].pid)
                   /\ c.term = "return" /\ ~c.ok => c.pid = Some(info[1].pid)
                   /\ c.term = "return" /\ c.ok => Has(c.events, "terminate")
    ]_vars

\* the occupant changed between two invocations and the outcomes differ
C6_Witness ==
    /\ Len(hpc) >= 2
    /\ envChanges >= 1
    /\ ~Occupied(hpc[1]) /\ hpc[1].ok
    /\ Occupied(hpc[2]) /\ OccupantPid(hpc[2]) = 500
    /\ IsSkipped(hpc[2]) /\ hpc[2].pid = Some(500)

\* C7: once the server was spawned and the health check after the settle
\* delay did not detect it, start_mona_server re-runs the resolver and
\* returns None, never True and never False.
C7_UndetectedMeansUnconfirmed ==
    (mona.spawned /\ mona.postcheck = Some(FALSE) /\ mona.ret # None)
        => Len(mona.calls) = 2 /\ mona.ret = Some("None")

\* C8: the server is spawned only after the resolver invocation made inside
\* start_mona_server returned clear or resolved; when that invocation
\* returns an unresolved outcome there is no spawn and the function returns
\* False, whatever the initial port check of the main sequence returned.
C8_SpawnOnlyWhenPortClear ==
    /\ mona.spawned
        => /\ Len(mona.calls) >= 1
           /\ mona.calls[1] = 2
           /\ hpc[2].term = "return" /\ hpc[2].ok /\ hpc[2].pid = None
    /\ (Len(hpc) >= 2 /\ hpc[2].term = "return" /\ ~hpc[2].ok)
        => /\ ~mona.spawned
           /\ procs[700].kind = "absent"
           /\ mona.ret = Some("False")
           /\ results.mona_server = "False"
           /\ Len(hpc) = 2

C8_Witness ==
    /\ results.port_conflict = "False"
    /\ results.conflicting_pid_at_start = Some(500)
    /\ Len(hpc) = 2 /\ IsSkipped(hpc[2])
    /\ mona.ret = Some("False")
    /\ ~mona.spawned

-----------------------------------------------------------------------------
(* Properties of the device selection (SpecSelect) *)

HasConnected(devs) == \E i \in 1..Len(devs) : devs[i].status = "device"

\* C10: select_device_from_list returns None exactly when no record of the
\* list has status connected; any record it returns is a member of the list
\* and has status connected.
C10_ReturnsConnectedOrNone ==
    choice # None =>
        LET c == choice[1]
        IN /\ ~HasConnected(devices) => c.term = "return" /\ c.dev = None
           /\ (c.term = "return" /\ c.dev = None) => ~HasConnected(devices)
           /\ (c.term = "return" /\ c.dev # None)
                => \E i \in 1..Len(devices) :
                        devices[i] = c.dev[1] /\ devices[i].status = "device"
           /\ c.dev # None => c.term = "return"

\* a device is picked at the prompt from a list that also has an
\* unauthorized record
C10_Witness ==
    /\ choice # None
    /\ choice[1].term = "return" /\ choice[1].dev # None
    /\ choice[1].prompts >= 1
    /\ \E i \in 1..Len(devices) : devices[i].status = "unauthorized"
    /\ selected = choice[1].dev

ConnectedIdx(devs) == {i \in 1..Len(devs) : devs[i].status = "device"}

\* the k-th connected record of the list, counting from 1
NthConnected(devs, k) ==
    devs[CHOOSE i \in ConnectedIdx(devs) :
            Cardinality({j \in ConnectedIdx(devs) : j <= i}) = k]

\* C11: with exactly one connected record and auto-select enabled, that
\* record is returned at once and no prompt is issued, whatever offline or
\* unauthorized records the list also has.
C11_AutoSelectSingle ==
    (choice # None /\ config.auto_select_single_device
        /\ Cardinality(ConnectedIdx(devices)) = 1)
        => LET c == choice[1]
           IN /\ c.term = "return"
              /\ c.dev = Some(NthConnected(devices, 1))
              /\ c.prompts = 0
              /\ c.events = <<Ev("auto_select", 0)>>
              /\ exitStatus = None

C11_Witness ==
    /\ choice # None /\ config.auto_select_single_device
    /\ Len(devices) = 2
    /\ devices[1].status = "unauthorized" /\ devices[2].status = "device"
    /\ choice[1].dev = Some(devices[2])
    /\ choice[1].prompts = 0
    /\ choice[1].inputs # <<>>

\* the number a line typed at the prompt stands for, 0 when it is not one
\* of 1..N
TypedNumber(tok, N) ==
    IF \E k \in 1..N : NumStr(k) = tok THEN CHOOSE k \in 1..N : NumStr(k) = tok ELSE 0

\* C12: the prompt is issued exactly when there are two or more connected
\* records, or one with auto-select off.  Every line that is not an integer
\* in 1..N is answered by another prompt; the selection returns only on a
\* line in 1..N (with the record of that number), exits only on an
\* interrupt, and is otherwise still prompting; it never returns None.
C12_PromptUntilInRange ==
    choice # None =>
        LET c == choice[1]
            N == Cardinality(ConnectedIdx(devices))
            prompted == N >= 2 \/ (N = 1 /\ ~config.auto_select_single_device)
            rejected(i) == c.inputs[i] # "interrupt" /\ TypedNumber(c.inputs[i], N) = 0
        IN /\ (c.prompts >= 1) = prompted
           /\ prompted =>
                /\ c.term = "waiting"
                     <=> \A i \in 1..Len(c.inputs) : rejected(i)
                /\ c.term = "waiting"
                     => c.prompts = Len(c.inputs) + 1 /\ c.dev = None /\ exitStatus = None
                /\ c.term # "waiting"
                     => /\ c.prompts \in 1..Len(c.inputs)
                        /\ \A i \in 1..(c.prompts - 1) : rejected(i)
                        /\ ~rejected(c.prompts)
                /\ c.term = "return"
                     => /\ TypedNumber(c.inputs[c.prompts], N) >= 1
                        /\ c.dev = Some(NthConnected(devices,
                                            TypedNumber(c.inputs[c.prompts], N)))
                /\ c.term = "exit"
                     => c.inputs[c.prompts] = "interrupt" /\ c.dev = None

\* an out-of-range line and then an in-range line with two connected devices
C12_Witness ==
    /\ choice # None
    /\ Cardinality(ConnectedIdx(devices)) = 2
    /\ choice[1].inputs = <<"3", "2">>
    /\ choice[1].term = "return"
    /\ choice[1].prompts = 2
    /\ choice[1].dev = Some(devices[2])

\* the operator interrupted the device prompt: the last line read by the
\* selection is an interrupt
SelectionInterrupted ==
    /\ choice # None
    /\ choice[1].prompts >= 1
    /\ choice[1].inputs[choice[1].prompts] = "interrupt"

\* C13: an interrupt at the device prompt ends the program at once with
\* exit status 0: the selection is the last step of the run, no error is
\* presented, and forwarding, app launch, server start and summary never run.
C13_InterruptExitsZero ==
    SelectionInterrupted =>
        /\ pc = "exited"
        /\ exitStatus = Some(0)
        /\ steps = <<"config", "port_check", "adb", "select">>
        /\ selected = None
        /\ mona = InitMona
        /\ results.port_forwarding = InitResults.port_forwarding
        /\ results.app_launch = InitResults.app_launch
        /\ results.url_copied = InitResults.url_copied
        /\ results.mona_server = InitResults.mona_server

\* interrupted at the second prompt, after a line that was not a choice
C13_Witness ==
    /\ SelectionInterrupted
    /\ choice[1].inputs = <<"x", "interrupt">>
    /\ pc = "exited"
    /\ exitStatus = Some(0)

\* the operator interrupted the kill prompt or the skip prompt of a
\* resolver invocation
ResolverInterrupted(c) ==
    \/ Has(c.events, "ask_kill") /\ c.ans.kill = "interrupt"
    \/ Has(c.events, "ask_skip") /\ c.ans.skip = "interrupt"

\* C14: an operator interrupt at a prompt of the run (kill confirmation,
\* skip confirmation, device selection) ends the program through a handled
\* path with exit status 0, never through an exception nothing catches.
C14_CancellationIsCleanExit ==
    (SelectionInterrupted \/ \E i \in 1..Len(hpc) : ResolverInterrupted(hpc[i]))
        => pc = "exited" /\ exitStatus = Some(0)

\* C15: on Windows a resolver invocation whose probe reports occupant pid 0
\* never ends in 'resolved'; when terminate is called for it, it refuses,
\* sends no kill signal to any process, leaves the environment as it was
\* and the invocation returns failure with the occupant's id.
C15_PidZeroNeverKilled ==
    \A i \in 1..Len(hpc) :
        LET c == hpc[i]
        IN (platform = "Windows" /\ Occupied(c) /\ OccupantPid(c) = 0)
            => /\ ~IsResolved(c)
               /\ ~(c.term = "return" /\ c.ok)
               /\ ~Has(c.events, "killing")
               /\ ~Has(c.events, "signal")
               /\ ~Has(c.events, "signal_sent")
               /\ TerminateCalled(c)
                    => /\ HasEv(c.events, "refuse_pid0", 0)
                       /\ c.term = "return" /\ ~c.ok /\ c.pid = Some(0)
                       /\ (Len(hpc) = 1 /\ ~c.ans.vanish)
                            => conns = c.conns0 /\ procs = c.procs0

\* force-kill on Windows with pid 0 listening on the port
C15_Witness ==
    /\ hpc # <<>>
    /\ platform = "Windows"
    /\ config.force_kill_port_process
    /\ Occupied(LastCall) /\ OccupantPid(LastCall) = 0
    /\ HasEv(LastCall.events, "terminate", 0)
    /\ HasEv(LastCall.events, "refuse_pid0", 0)
    /\ ~LastCall.ok

\* the occupant as terminate finds it: gone when it exited by itself after
\* the probe
KindAtKill(c) ==
    IF c.ans.vanish THEN "absent" ELSE c.procs0[OccupantPid(c)].kind

\* C16: terminate returns success whenever the kill signal was delivered or
\* the process was already gone, also when the wait for the exit timed out
\* and the process is still alive (a warning only); it returns failure only
\* for the refused pid 0 on Windows or when signalling raised another error.
C16_TerminateSuccessCases ==
    \A i \in 1..Len(hpc) :
        LET c == hpc[i]
            pid == OccupantPid(c)
            refused == RefusesPid(pid, platform)
        IN TerminateCalled(c) =>
            /\ c.term = "return"
            /\ c.ok <=> (Has(c.events, "signal_sent") \/ Has(c.events, "gone"))
            /\ ~c.ok <=> (Has(c.events, "refuse_pid0") \/ Has(c.events, "kill_error"))
            /\ Has(c.events, "refuse_pid0") <=> refused
            /\ (~refused /\ KindAtKill(c) = "absent") => c.ok /\ Has(c.events, "gone")
            /\ (~refused /\ KindAtKill(c) = "normal") => c.ok /\ Has(c.events, "signal")
            /\ (~refused /\ KindAtKill(c) = "stubborn")
                 => /\ c.ok
                    /\ Has(c.events, "signal") /\ Has(c.events, "linger")
                    /\ Len(hpc) = 1 => procs[pid].kind = "stubborn"
            /\ Has(c.events, "linger") => Has(c.events, "signal_sent")
            /\ (~refused /\ KindAtKill(c) \in {"protected", "hidden"})
                 => ~c.ok /\ Has(c.events, "kill_error") /\ ~Has(c.events, "signal")

\* the wait timed out, the process is still alive, and terminate succeeded
C16_Witness ==
    /\ hpc # <<>>
    /\ TerminateCalled(LastCall)
    /\ Has(LastCall.events, "linger")
    /\ LastCall.ok
    /\ procs[OccupantPid(LastCall)].kind = "stubborn"

\* a listening entry for the port whose owning process can be resolved: the
\* owner is reported and its name can be read
Matches(port, i) ==
    /\ conns[i].lport = port
    /\ conns[i].status = "LISTEN"
    /\ conns[i].pid # NoPid
    /\ procs[conns[i].pid].kind \notin {"absent", "hidden"}

\* C17: the probe returns the first entry, in enumeration order, that
\* listens on the port and whose owning process can be resolved, skipping
\* entries whose process vanished or is inaccessible; it returns none when
\* no such entry exists, when the port is outside (0, 65535] and when the
\* enumeration fails.
C17_FirstResolvableListener ==
    (pc = "returned" /\ hpc # <<>>) =>
        LET port == hpc[1].port
            info == hpc[1].info
            M == {i \in 1..Len(conns) : Matches(port, i)}
        IN IF ~(0 < port /\ port <= 65535) \/ enumFails \/ M = {}
           THEN info = None
           ELSE LET first == CHOOSE i \in M : \A j \in M : i <= j
                IN info = Some([pid |-> conns[first].pid,
                                name |-> procs[conns[first].pid].name])

StepDone(s) == \E i \in 1..Len(steps) : steps[i] = s

\* the run ended with the steps a, b as its last two
EndsWith(a, b) ==
    Len(steps) >= 2 /\ steps[Len(steps) - 1] = a /\ steps[Len(steps)] = b

NormalCompletion ==
    /\ exitStatus = Some(0)
    /\ EndsWith("summary", "ack") \/ EndsWith("summary", "ack_interrupted")
    /\ ~StepDone("error_shown")

\* the step in which exit_with_error was called, and why
FatalCause ==
    /\ Len(steps) >= 3
    /\ LET at == steps[Len(steps) - 2]
       IN \/ at = "config" /\ hpc = <<>>
          \/ at = "adb"
          \/ at = "select" /\ choice # None /\ choice[1].term = "return"
                /\ choice[1].dev = None
          \/ at = "forward" /\ results.port_forwarding = "False"
          \/ at \in {"port_check", "mona"} /\ hpc # <<>> /\ IsFatal(LastCall)
                /\ LastCall.ans.kill = "n" /\ LastCall.ans.skip = "n"

FatalExit ==
    /\ exitStatus = Some(1)
    /\ EndsWith("error_shown", "ack")
    /\ ~StepDone("summary")
    /\ FatalCause

CancelledSelection ==
    /\ exitStatus = Some(0)
    /\ SelectionInterrupted
    /\ steps[Len(steps)] = "select"
    /\ ~StepDone("summary") /\ ~StepDone("error_shown")

Discovered == pc # "discover"

\* the numbers of the lines after the first that match the fixed format
MatchingAfterFirst == {i \in 2..Len(listing) : LineMatch(listing[i])}

\* the line the k-th record was made from
LineOfRecord(k) ==
    CHOOSE i \in MatchingAfterFirst :
        Cardinality({j \in MatchingAfterFirst : j <= i}) = k

\* C19 as stated: when the listing is the one line "ABC123  device" and
\* metadata fetching is disabled, discovery followed by the selection
\* returns, without a prompt, the record ABC123 / connected / "Unknown".
C19_OneLineListing ==
    (listing = << <<"ABC123", "device">> >> /\ ~config.fetch_device_models
        /\ steps = <<"devices_listed", "select">>)
        => /\ choice[1].term = "return"
           /\ choice[1].prompts = 0
           /\ choice[1].dev # None
           /\ choice[1].dev[1].id = "ABC123"
           /\ choice[1].dev[1].status = "device"
           /\ choice[1].dev[1].name = "Unknown"

\* C19, amended: the first line of the listing is the header and is never
\* parsed.  Every later line that matches the fixed format yields exactly
\* one record, in order, and the other lines are skipped; a listing of at
\* most one line, or a failed command, yields no record.  When the listing
\* is the header followed by "ABC123  device", metadata fetching is
\* disabled and auto-select is enabled, the selection returns without a
\* prompt the record ABC123 / connected / "Unknown".
C19_LinesAfterHeader ==
    /\ (Discovered /\ steps[1] = "adb_error") => devices = <<>>
    /\ (Discovered /\ steps[1] = "devices_listed") =>
        /\ Len(devices) = Cardinality(MatchingAfterFirst)
        /\ \A k \in 1..Len(devices) :
            LET line == listing[LineOfRecord(k)]
            IN /\ devices[k].id = line[1]
               /\ devices[k].status = line[2]
               /\ (line[2] = "device" /\ ~config.fetch_device_models)
                    => devices[k].name = "Unknown"
               /\ line[2] = "offline" => devices[k].name = "(Offline)"
    /\ (listing = <<HeaderLine, <<"ABC123", "device">> >>
            /\ ~config.fetch_device_models /\ config.auto_select_single_device
            /\ steps = <<"devices_listed", "select">>)
        => /\ choice[1].term = "return"
           /\ choice[1].prompts = 0
           /\ choice[1].dev # None
           /\ choice[1].dev[1].id = "ABC123"
           /\ choice[1].dev[1].status = "device"
           /\ choice[1].dev[1].name = "Unknown"
           /\ choice[1].dev[1].connection = "USB"

C19_Witness ==
    /\ listing = <<HeaderLine, <<"ABC123", "device">> >>
    /\ ~config.fetch_device_models /\ config.auto_select_single_device
    /\ steps = <<"devices_listed", "select">>
    /\ pc = "returned"
    /\ selected # None
    /\ selected[1].id = "ABC123" /\ selected[1].name = "Unknown"

\* C20: during start_mona_server the process spawned by this run (pid 700,
\* line 911) is never
\* the target of a terminate call, also when the health check after the
\* spawn does not detect it, it listens on the RTMP port and the force-kill
\* policy is enabled.
C20_SpawnedServerNeverKilled ==
    \A i \in 1..Len(hpc) :
        (mona.spawned /\ i > 2) => ~HasEv(hpc[i].events, "terminate", 700)

\* the port text used by a later step denotes the port number p
Denotes(used, p) ==
    used # None => ParseInt(used[1]).ok /\ ParseInt(used[1]).val = p

\* C21: within one run the port number every resolver invocation probes is
\* the port number used for reverse port forwarding, for the RTMP URL and
\* for the occupancy checks after the spawn, for every configured port
\* string.
C21_OnePortPerRun ==
    \A i \in 1..Len(hpc) :
        /\ Denotes(ports.forward, ProbedPort(hpc[i]))
        /\ Denotes(ports.url, ProbedPort(hpc[i]))
        /\ Denotes(ports.recheck, ProbedPort(hpc[i]))

\* for a port string in (0, 65535] the steps do agree
C21_ValidPortAgrees ==
    ~InvalidPortString(config.rtmp_port) => C21_OnePortPerRun

\* C22: the number shown in the '#' column of the table next to a
\* connected device is the number that selects it: when the operator is
\* prompted and the first line typed is that number, the selection returns
\* that device.
C22_TableNumberSelects ==
    (choice # None /\ choice[1].prompts >= 1 /\ choice[1].inputs # <<>>) =>
        \A i \in 1..Len(devices) :
            (devices[i].status = "device"
                /\ choice[1].inputs[1] = choice[1].table[i].num)
                => /\ choice[1].term = "return"
                   /\ choice[1].dev = Some(devices[i])

\* C23: when the settings file sets AutoStartMonaServer to false, the run
\* never invokes start_mona_server and never spawns the server process.
C23_AutoStartOffNeverStarts ==
    settings.AutoStartMonaServer = "false"
        => ~mona.entered /\ ~mona.spawned /\ mona.calls = <<>>

====
